---- MODULE Spec2Model ----
(***************************************************************************)
(* Model of the hierarchical task store of tewduwu-neon:                   *)
(* rust_rewrite/src/core/todo_list.rs (TodoList) and the part of           *)
(* rust_rewrite/src/core/todo_item.rs (TodoItem) the store reads.          *)
(*                                                                         *)
(* A Uuid is a number of Ids; Option<Uuid>::None is the number None.       *)
(* A HashSet bucket is a set; wherever the code iterates a bucket the      *)
(* iteration order is an arbitrary enumeration of the set.  A key that is  *)
(* absent from the hierarchy map and a key that maps to an empty HashSet   *)
(* are the same value (the empty set): every read of the map in the source *)
(* treats the two alike (Vec::new(), zero loop iterations, a skipped       *)
(* get_mut).                                                               *)
(***************************************************************************)
EXTENDS Naturals, FiniteSets, Sequences, TLC

\* Number of distinct Uuids the environment can produce.
MaxIds == 3
\* Number of calls that hand a caller-built item to the store in one run.
MaxInserts == 1
\* Number of calls made on the store in one run.
MaxOps == 5
\* Number of threads that share the store behind its mutex.
MaxThreads == 2
\* The latest second the clock and the due dates reach.
MaxTime == 2

None == 0
Ids == 1..MaxIds
Keys == Ids \cup {None}

VARIABLES
    items,      \* TodoList.items: HashMap<Uuid, TodoItem>
    hierarchy,  \* TodoList.hierarchy: HashMap<Option<Uuid>, HashSet<Uuid>>
    last,       \* the last call made on the store, its arguments and what it returned
    inserts,    \* how many caller-built items were handed to the store so far
    nops,       \* how many calls were made on the store so far
    mutex,      \* Arc<Mutex<TodoList>>: the thread holding the guard, or None
    pc,         \* per thread: the store operation it runs and how far it got
    todo_item,  \* a TodoItem a caller owns outside any store, or NoItem
    widget_mutex \* per list widget: the thread holding the guard of one of
                 \* its Arc<Mutex<TodoItemWidget>>, or None

vars ==
    <<items, hierarchy, last, inserts, nops, mutex, pc, todo_item, widget_mutex>>

----------------------------------------------------------------------------
(* TodoItem: the fields the store reads.                                   *)

\* TodoItem::new gives a fresh id, parent_id: None, Status::default() and
\* Priority::default().
TodoItem(id, parent_id) ==
    [id |-> id, parent_id |-> parent_id, status |-> "NotStarted", priority |-> "Medium"]

\* HashMap::remove on items.
MapRemove(its, id) == [i \in (DOMAIN its) \ {id} |-> its[i]]

\* HashMap::insert on items.
MapInsert(its, id, item) == [i \in (DOMAIN its) \cup {id} |-> IF i = id THEN item ELSE its[i]]

\* self.items.get(&id).and_then(|item| item.parent_id())
parent_of(its, id) == IF id \in DOMAIN its THEN its[id].parent_id ELSE None

\* What an operation leaves behind: the store and the returned value.
Outcome(its, hier, ret) == [items |-> its, hierarchy |-> hier, ret |-> ret]

----------------------------------------------------------------------------
(* Queries.                                                                *)

len(its) == Cardinality(DOMAIN its)

\* The members of a bucket, as child_ids / root_item_ids collect them.
child_ids(hier, parent_id) == hier[parent_id]
root_item_ids(hier) == hier[None]

\* children(parent_id) (children_of here) / root_items(): the bucket ids that
\* self.items.get(id) finds (filter_map), as a set of items' keys.
children_of(its, hier, parent_id) == child_ids(hier, parent_id) \cap DOMAIN its
root_items(its, hier) == root_item_ids(hier) \cap DOMAIN its

----------------------------------------------------------------------------
(* add_item / create_item.                                                 *)

\* The Uuids the store mentions: keys of items, members of buckets, parent ids.
Used(its, hier) ==
    (DOMAIN its) \cup UNION {hier[k] : k \in Keys}
                 \cup ({its[i].parent_id : i \in DOMAIN its} \ {None})

\* The least id outside S, if there is one.  Ids the store does not mention
\* are interchangeable, so the least one stands for all of them.
Least(S) == {i \in Ids \ S : \A j \in Ids \ S : i <= j}

\* Uuid::new_v4: an id nothing mentions yet.
Fresh(its, hier) == Least(Used(its, hier))

\* The ids a caller can pass: every id the store mentions and one it does not.
Args(its, hier) == Used(its, hier) \cup Fresh(its, hier)

\* add_item without the insert into the parent's bucket.
add_item_no_bucket(its, hier, item) ==
    Outcome(MapInsert(its, item.id, item), hier, item.id)

add_item(its, hier, item) ==
    LET id == item.id
        parent_id == item.parent_id
    IN  Outcome(MapInsert(its, id, item),
                [hier EXCEPT ![parent_id] = @ \cup {id}],
                id)

\* create_item with the new id left out of the root bucket.
create_item_unlisted(its, hier, fresh) ==
    Outcome(MapInsert(its, fresh, TodoItem(fresh, None)), hier, fresh)

create_item(its, hier, fresh) == add_item(its, hier, TodoItem(fresh, None))

----------------------------------------------------------------------------
(* move_item and its ancestor walk.                                        *)

\* is_ancestor(item_id, potential_ancestor_id) recurses from item_id up the
\* parent_id links.  The recursion has no guard: a call that re-enters a
\* call with the same arguments never returns ("diverges").  visited is
\* the set of item_id arguments of the calls on the stack.
RECURSIVE is_ancestor(_, _, _, _)
is_ancestor(its, item_id, potential_ancestor_id, visited) ==
    LET parent_id == parent_of(its, item_id)
    IN  IF parent_id = None THEN "false"
        ELSE IF parent_id = potential_ancestor_id THEN "true"
        ELSE IF parent_id \in visited THEN "diverges"
        ELSE is_ancestor(its, parent_id, potential_ancestor_id, visited \cup {parent_id})

\* The cycle check of move_item: parent_id == item_id || self.is_ancestor(item_id, parent_id)
cycle_check(its, item_id, parent_id) ==
    IF parent_id = item_id THEN "true"
    ELSE is_ancestor(its, item_id, parent_id, {item_id})

\* move_item with the detach from the current bucket done before the
\* validation instead of after it.
move_item_detach_first(its, hier, item_id, new_parent_id) ==
    LET current_parent_id == parent_of(its, item_id)
        hier1 == [hier EXCEPT ![current_parent_id] = @ \ {item_id}]
    IN  IF item_id \notin DOMAIN its
        THEN Outcome(its, hier1, "ItemNotFound")
        ELSE IF new_parent_id # None /\ new_parent_id \notin DOMAIN its
        THEN Outcome(its, hier1, "ParentNotFound")
        ELSE IF new_parent_id # None /\ cycle_check(its, item_id, new_parent_id) = "true"
        THEN Outcome(its, hier1, "CycleDetected")
        ELSE IF new_parent_id # None /\ cycle_check(its, item_id, new_parent_id) = "diverges"
        THEN Outcome(its, hier1, "NoReturn")
        ELSE Outcome([its EXCEPT ![item_id].parent_id = new_parent_id],
                     [hier1 EXCEPT ![new_parent_id] = @ \cup {item_id}],
                     "Ok")

\* move_item with the parent looked up before the item.
move_item_parent_first(its, hier, item_id, new_parent_id) ==
    IF new_parent_id # None /\ new_parent_id \notin DOMAIN its
    THEN Outcome(its, hier, "ParentNotFound")
    ELSE IF item_id \notin DOMAIN its
    THEN Outcome(its, hier, "ItemNotFound")
    ELSE IF new_parent_id # None /\ cycle_check(its, item_id, new_parent_id) = "true"
    THEN Outcome(its, hier, "CycleDetected")
    ELSE IF new_parent_id # None /\ cycle_check(its, item_id, new_parent_id) = "diverges"
    THEN Outcome(its, hier, "NoReturn")
    ELSE LET current_parent_id == parent_of(its, item_id)
             hier1 == [hier EXCEPT ![current_parent_id] = @ \ {item_id}]
             hier2 == [hier1 EXCEPT ![new_parent_id] = @ \cup {item_id}]
             its1 == [its EXCEPT ![item_id].parent_id = new_parent_id]
         IN  Outcome(its1, hier2, "Ok")

\* move_item that leaves item_id in the bucket of its old parent.
move_item_keep_old(its, hier, item_id, new_parent_id) ==
    IF item_id \notin DOMAIN its
    THEN Outcome(its, hier, "ItemNotFound")
    ELSE IF new_parent_id # None /\ new_parent_id \notin DOMAIN its
    THEN Outcome(its, hier, "ParentNotFound")
    ELSE IF new_parent_id # None /\ cycle_check(its, item_id, new_parent_id) = "true"
    THEN Outcome(its, hier, "CycleDetected")
    ELSE IF new_parent_id # None /\ cycle_check(its, item_id, new_parent_id) = "diverges"
    THEN Outcome(its, hier, "NoReturn")
    ELSE Outcome([its EXCEPT ![item_id].parent_id = new_parent_id],
                 [hier EXCEPT ![new_parent_id] = @ \cup {item_id}],
                 "Ok")

move_item(its, hier, item_id, new_parent_id) ==
    IF item_id \notin DOMAIN its
    THEN Outcome(its, hier, "ItemNotFound")
    ELSE IF new_parent_id # None /\ new_parent_id \notin DOMAIN its
    THEN Outcome(its, hier, "ParentNotFound")
    ELSE IF new_parent_id # None /\ cycle_check(its, item_id, new_parent_id) = "true"
    THEN Outcome(its, hier, "CycleDetected")
    ELSE IF new_parent_id # None /\ cycle_check(its, item_id, new_parent_id) = "diverges"
    THEN Outcome(its, hier, "NoReturn")
    ELSE LET current_parent_id == parent_of(its, item_id)
             hier1 == [hier EXCEPT ![current_parent_id] = @ \ {item_id}]
             hier2 == [hier1 EXCEPT ![new_parent_id] = @ \cup {item_id}]
             its1 == [its EXCEPT ![item_id].parent_id = new_parent_id]
         IN  Outcome(its1, hier2, "Ok")

----------------------------------------------------------------------------
(* remove_item.                                                            *)

\* The recursion of remove_item.  The for loop over the children runs in the
\* HashSet's iteration order, which is any order: the result is the set of
\* outcomes over all orders.  ret is "Some" when self.items.remove(&id) at
\* the end still finds the item, "None" otherwise.
RECURSIVE remove_item(_, _, _)

\* remove_item that reads the bucket of id and leaves it in the index while
\* it descends.  stack holds the ids of the calls in progress: nothing is
\* written before the descent, so a call that meets its own id on the stack
\* repeats itself without end.
RECURSIVE remove_item_descend(_, _, _, _)
remove_item_descend(its, hier, id, stack) ==
    IF id \notin DOMAIN its
    THEN {Outcome(its, hier, "None")}
    ELSE IF id \in stack
    THEN {Outcome(its, hier, "NoReturn")}
    ELSE LET children == hier[id]
             RECURSIVE remove_children(_, _)
             remove_children(S, todo) ==
                 IF todo = {} THEN S
                 ELSE UNION { remove_children(
                                  UNION {IF s.ret = "NoReturn" THEN {s}
                                         ELSE remove_item_descend(s.items, s.hierarchy,
                                                                  child_id, stack \cup {id})
                                         : s \in S},
                                  todo \ {child_id}) : child_id \in todo }
             detach(s) ==
                 LET parent_id == parent_of(s.items, id)
                 IN  IF s.ret = "NoReturn" THEN s
                     ELSE Outcome(MapRemove(s.items, id),
                                  [s.hierarchy EXCEPT ![id] = {},
                                                      ![parent_id] = @ \ {id}],
                                  IF id \in DOMAIN s.items THEN "Some" ELSE "None")
         IN  {detach(s) : s \in remove_children({Outcome(its, hier, "None")}, children)}

remove_item_bucket_kept(its, hier, id) == remove_item_descend(its, hier, id, {})

\* remove_item without the early return for an id that is not stored.
remove_item_unchecked(its, hier, id) ==
    LET children == hier[id]
        taken == [hier EXCEPT ![id] = {}]
        RECURSIVE remove_children(_, _)
        remove_children(S, todo) ==
            IF todo = {} THEN S
            ELSE UNION { remove_children(
                             UNION {remove_item(s.items, s.hierarchy, child_id) : s \in S},
                             todo \ {child_id}) : child_id \in todo }
        detach(s) ==
            LET parent_id == parent_of(s.items, id)
            IN  Outcome(MapRemove(s.items, id),
                        [s.hierarchy EXCEPT ![parent_id] = @ \ {id}],
                        IF id \in DOMAIN s.items THEN "Some" ELSE "None")
    IN  {detach(s) : s \in remove_children({Outcome(its, taken, "None")}, children)}

remove_item(its, hier, id) ==
    IF id \notin DOMAIN its
    THEN {Outcome(its, hier, "None")}
    ELSE LET children == hier[id]
             taken == [hier EXCEPT ![id] = {}]
             RECURSIVE remove_children(_, _)
             remove_children(S, todo) ==
                 IF todo = {} THEN S
                 ELSE UNION { remove_children(
                                  UNION {remove_item(s.items, s.hierarchy, child_id) : s \in S},
                                  todo \ {child_id}) : child_id \in todo }
             detach(s) ==
                 LET parent_id == parent_of(s.items, id)
                 IN  Outcome(MapRemove(s.items, id),
                             [s.hierarchy EXCEPT ![parent_id] = @ \ {id}],
                             IF id \in DOMAIN s.items THEN "Some" ELSE "None")
         IN  {detach(s) : s \in remove_children({Outcome(its, taken, "None")}, children)}

----------------------------------------------------------------------------
(* move_item_before.                                                       *)

Range(seq) == {seq[i] : i \in DOMAIN seq}

\* The orders in which iterating a HashSet can yield its members.
Orders(S) ==
    {seq \in [1..Cardinality(S) -> S] :
        \A i, j \in 1..Cardinality(S) : i # j => seq[i] # seq[j]}

\* The for loop that builds new_order from the children in iteration order.
RECURSIVE build_order(_, _, _)
build_order(children, item_id, target_id) ==
    IF children = <<>> THEN <<>>
    ELSE LET child_id == Head(children)
             rest == build_order(Tail(children), item_id, target_id)
         IN  IF child_id = item_id THEN rest
             ELSE IF child_id = target_id THEN <<item_id, child_id>> \o rest
             ELSE <<child_id>> \o rest

\* new_order after the loop and the trailing push.
new_order(children, item_id, target_id) ==
    LET built == build_order(children, item_id, target_id)
        item_included == item_id \in Range(children)
    IN  IF ~item_included /\ item_id \notin Range(built)
        THEN Append(built, item_id)
        ELSE built

\* move_item_before without the lookup of target_id: a target that is not
\* stored counts as a parentless one.
move_item_before_any_target(its, hier, item_id, target_id) ==
    IF item_id \notin DOMAIN its
    THEN {Outcome(its, hier, "ItemNotFound")}
    ELSE LET item_parent_id == its[item_id].parent_id
             target_parent_id == parent_of(its, target_id)
             moved == IF item_parent_id # target_parent_id
                      THEN move_item(its, hier, item_id, target_parent_id)
                      ELSE Outcome(its, hier, "Ok")
             parent_id == target_parent_id
         IN  IF moved.ret # "Ok"
             THEN {moved}
             ELSE { Outcome(moved.items,
                            [moved.hierarchy EXCEPT
                                ![parent_id] = Range(new_order(children, item_id, target_id))],
                            "Ok")
                    : children \in Orders(child_ids(moved.hierarchy, parent_id)) }

move_item_before(its, hier, item_id, target_id) ==
    IF item_id \notin DOMAIN its
    THEN {Outcome(its, hier, "ItemNotFound")}
    ELSE IF target_id \notin DOMAIN its
    THEN {Outcome(its, hier, "TargetNotFound")}
    ELSE LET item_parent_id == its[item_id].parent_id
             target_parent_id == its[target_id].parent_id
             moved == IF item_parent_id # target_parent_id
                      THEN move_item(its, hier, item_id, target_parent_id)
                      ELSE Outcome(its, hier, "Ok")
             parent_id == target_parent_id
         IN  IF moved.ret # "Ok"
             THEN {moved}
             ELSE { Outcome(moved.items,
                            [moved.hierarchy EXCEPT
                                ![parent_id] = Range(new_order(children, item_id, target_id))],
                            "Ok")
                    : children \in Orders(child_ids(moved.hierarchy, parent_id)) }

----------------------------------------------------------------------------
(* hierarchical_view.                                                      *)

\* traverse(list, parent_id, depth, result) has no guard either: it never
\* returns when it reaches traverse(Some(id)) for an id whose call is still
\* on the stack.  stack holds the ids of the calls on the stack.
RECURSIVE traverse_diverges(_, _, _, _)
traverse_diverges(its, hier, parent_id, stack) ==
    \E id \in child_ids(hier, parent_id) \cap DOMAIN its :
        id \in stack \/ traverse_diverges(its, hier, id, stack \cup {id})

view_diverges(its, hier) == traverse_diverges(its, hier, None, {})

\* What traverse pushes onto result, for every iteration order of every
\* bucket it walks: sequences of (item id, depth).  Only evaluated where
\* the traversal returns.
RECURSIVE traverse(_, _, _, _)
traverse(its, hier, parent_id, depth) ==
    LET RECURSIVE for_each(_, _)
        for_each(order, pushed) ==
            IF order = <<>> THEN pushed
            ELSE LET id == Head(order)
                 IN  IF id \in DOMAIN its
                     THEN for_each(Tail(order),
                                   {p \o <<[id |-> id, depth |-> depth]>> \o below :
                                       p \in pushed,
                                       below \in traverse(its, hier, id, depth + 1)})
                     ELSE for_each(Tail(order), pushed)
    IN  UNION {for_each(order, {<<>>}) : order \in Orders(child_ids(hier, parent_id))}

hierarchical_view(its, hier) == traverse(its, hier, None, 0)

----------------------------------------------------------------------------
(* Flat queries: filter_items and its wrappers, sorted_items.              *)

Statuses == {"NotStarted", "InProgress", "Completed"}
Priorities == {"Low", "Medium", "High"}

\* self.items.values(): every stored item once, in the HashMap's iteration
\* order, which is an arbitrary enumeration of the keys.
values(its) ==
    {[i \in 1..len(its) |-> its[order[i]]] : order \in Orders(DOMAIN its)}

\* A filter closure Fn(&TodoItem) -> bool that reads status and priority is
\* the set of <<status, priority>> pairs it accepts.
accepts(filter_fn, item) == <<item.status, item.priority>> \in filter_fn

\* filter_items that collects values() without applying the closure.
filter_items_unfiltered(its, filter_fn) == values(its)

filter_items(its, filter_fn) ==
    {SelectSeq(vs, LAMBDA item : accepts(filter_fn, item)) : vs \in values(its)}

\* The closures of the wrappers: |item| item.is_completed(), its negation,
\* |item| item.priority() == priority, |item| item.status() == status.
completed_fn == {"Completed"} \X Priorities
incomplete_fn == (Statuses \ {"Completed"}) \X Priorities
has_priority(priority) == Statuses \X {priority}
has_status(status) == {status} \X Priorities

completed_items(its) == filter_items(its, completed_fn)
incomplete_items(its) == filter_items(its, incomplete_fn)
items_by_priority(its, priority) == filter_items(its, has_priority(priority))
items_by_status(its, status) == filter_items(its, has_status(status))

\* The closures a caller filters with: those of the wrappers and
\* |item| item.status() == Completed && item.priority() == High.
FilterFns ==
    {completed_fn, incomplete_fn, has_priority("High"), has_status("InProgress"),
     completed_fn \cap has_priority("High")}

\* The derived Ord of Priority: Low < Medium < High.
PriorityOrd == [p \in Priorities |-> CASE p = "Low" -> 0 [] p = "Medium" -> 1 [] p = "High" -> 2]

\* A key closure Fn(&TodoItem) -> K that reads the priority is the key it
\* gives to each priority: the derived order, its reverse, one key for all.
KeyFns ==
    {PriorityOrd,
     [p \in Priorities |-> 2 - PriorityOrd[p]],
     [p \in Priorities |-> 0]}

\* sort_by_key that puts an item before the items of equal key already
\* placed.
RECURSIVE sort_by_key_unstable(_, _)
sort_by_key_unstable(seq, key_fn) ==
    IF seq = <<>> THEN <<>>
    ELSE LET n == Len(seq)
             x == seq[n]
             placed == sort_by_key_unstable(SubSeq(seq, 1, n - 1), key_fn)
             k == Cardinality({i \in DOMAIN placed :
                                  key_fn[placed[i].priority] < key_fn[x.priority]})
         IN  SubSeq(placed, 1, k) \o <<x>> \o SubSeq(placed, k + 1, n - 1)

\* slice::sort_by_key, a stable sort: each item goes after the items already
\* placed whose key is less than or equal to its own.
RECURSIVE sort_by_key(_, _)
sort_by_key(seq, key_fn) ==
    IF seq = <<>> THEN <<>>
    ELSE LET n == Len(seq)
             x == seq[n]
             placed == sort_by_key(SubSeq(seq, 1, n - 1), key_fn)
             k == Cardinality({i \in DOMAIN placed :
                                  key_fn[placed[i].priority] <= key_fn[x.priority]})
         IN  SubSeq(placed, 1, k) \o <<x>> \o SubSeq(placed, k + 1, n - 1)

\* sorted_items(key_fn): values() collected, then sorted in place.
sorted_items(its, key_fn) == {sort_by_key(vs, key_fn) : vs \in values(its)}

----------------------------------------------------------------------------
(* The store as a state machine: one action per public operation.          *)

Call(op, a, b, result) == [op |-> op, a |-> a, b |-> b, result |-> result]

\* No TodoItem was built outside the store.
NoItem == <<>>

\* The threads that hold a clone of the Arc<Mutex<TodoList>>.
Threads == 1..MaxThreads

\* A thread that runs no store operation.
Idle == [op |-> "none", step |-> "idle", id |-> None]

\* A call that never returned leaves no caller to make another one.
Running == last.result # "NoReturn" /\ nops < MaxOps

Init ==
    /\ items = [i \in {} |-> TodoItem(None, None)]
    /\ hierarchy = [k \in Keys |-> {}]
    /\ last = Call("new", None, None, "Ok")
    /\ inserts = 0
    /\ nops = 0
    /\ mutex = None
    /\ pc = [t \in Threads |-> Idle]
    /\ widget_mutex = [t \in Threads |-> None]
    /\ todo_item = NoItem

Create ==
    /\ Running
    /\ \E fresh \in Fresh(items, hierarchy) :
         LET out == create_item(items, hierarchy, fresh)
         IN  /\ items' = out.items
             /\ hierarchy' = out.hierarchy
             /\ last' = Call("create", out.ret, None, "Ok")
             /\ inserts' = inserts
             /\ nops' = nops + 1
             /\ UNCHANGED <<mutex, pc, todo_item, widget_mutex>>

\* add_item with an item the caller built: any id, any parent_id.
Insert ==
    /\ Running
    /\ inserts < MaxInserts
    /\ \E id \in Args(items, hierarchy) :
       \E parent_id \in {None, id} \cup Used(items, hierarchy)
                                   \cup Least(Used(items, hierarchy) \cup {id}) :
         LET out == add_item(items, hierarchy, TodoItem(id, parent_id))
         IN  /\ items' = out.items
             /\ hierarchy' = out.hierarchy
             /\ last' = Call("insert", out.ret, parent_id, "Ok")
             /\ inserts' = inserts + 1
             /\ nops' = nops + 1
             /\ UNCHANGED <<mutex, pc, todo_item, widget_mutex>>

Move ==
    /\ Running
    /\ \E item_id \in Args(items, hierarchy),
          new_parent_id \in {None} \cup Args(items, hierarchy) :
         LET out == move_item(items, hierarchy, item_id, new_parent_id)
         IN  /\ items' = out.items
             /\ hierarchy' = out.hierarchy
             /\ last' = Call("move", item_id, new_parent_id, out.ret)
             /\ inserts' = inserts
             /\ nops' = nops + 1
             /\ UNCHANGED <<mutex, pc, todo_item, widget_mutex>>

MoveBefore ==
    /\ Running
    /\ \E item_id \in Args(items, hierarchy), target_id \in Args(items, hierarchy) :
       \E out \in move_item_before(items, hierarchy, item_id, target_id) :
             /\ items' = out.items
             /\ hierarchy' = out.hierarchy
             /\ last' = Call("move_before", item_id, target_id, out.ret)
             /\ inserts' = inserts
             /\ nops' = nops + 1
             /\ UNCHANGED <<mutex, pc, todo_item, widget_mutex>>

Remove ==
    /\ Running
    /\ \E id \in Args(items, hierarchy) :
       \E out \in remove_item(items, hierarchy, id) :
             /\ items' = out.items
             /\ hierarchy' = out.hierarchy
             /\ last' = Call("remove", id, None, out.ret)
             /\ inserts' = inserts
             /\ nops' = nops + 1
             /\ UNCHANGED <<mutex, pc, todo_item, widget_mutex>>

\* Every public mutating operation of the store.
Next == Create \/ Insert \/ Move \/ MoveBefore \/ Remove

Spec == Init /\ [][Next]_vars

\* create, insert, move and remove only.
NextCIMR == Create \/ Insert \/ Move \/ Remove

SpecCIMR == Init /\ [][NextCIMR]_vars

\* create, move and remove only.
NextCMR == Create \/ Move \/ Remove

SpecCMR == Init /\ [][NextCMR]_vars

\* create, move, move_before and remove only.
NextCMBR == Create \/ Move \/ MoveBefore \/ Remove

SpecCMBR == Init /\ [][NextCMBR]_vars

----------------------------------------------------------------------------
(* The store under create, field updates through get_item_mut, remove and  *)
(* the flat queries.                                                       *)

\* list.get_item_mut(id): Some for a stored id, then set_status(status).
UpdateStatus ==
    /\ Running
    /\ \E id \in DOMAIN items, status \in Statuses :
         /\ items' = [items EXCEPT ![id].status = status]
         /\ last' = Call("set_status", id, status, "Ok")
    /\ nops' = nops + 1
    /\ UNCHANGED <<hierarchy, inserts, mutex, pc, todo_item, widget_mutex>>

\* list.get_item_mut(id): Some for a stored id, then set_priority(priority).
UpdatePriority ==
    /\ Running
    /\ \E id \in DOMAIN items, priority \in Priorities :
         /\ items' = [items EXCEPT ![id].priority = priority]
         /\ last' = Call("set_priority", id, priority, "Ok")
    /\ nops' = nops + 1
    /\ UNCHANGED <<hierarchy, inserts, mutex, pc, todo_item, widget_mutex>>

\* filter_items(filter_fn): the call records the closure and the list returned.
Filter ==
    /\ Running
    /\ \E filter_fn \in FilterFns :
       \E result \in filter_items(items, filter_fn) :
         last' = Call("filter", filter_fn, None, result)
    /\ nops' = nops + 1
    /\ UNCHANGED <<items, hierarchy, inserts, mutex, pc, todo_item, widget_mutex>>

\* sorted_items(key_fn): the call records the closure, the order in which
\* values() yielded the items and the list returned.
Sorted ==
    /\ Running
    /\ \E key_fn \in KeyFns :
       \E vs \in values(items) :
         last' = Call("sorted", key_fn, vs, sort_by_key(vs, key_fn))
    /\ nops' = nops + 1
    /\ UNCHANGED <<items, hierarchy, inserts, mutex, pc, todo_item, widget_mutex>>

NextQuery == Create \/ UpdateStatus \/ UpdatePriority \/ Remove \/ Filter \/ Sorted

SpecQuery == Init /\ [][NextQuery]_vars

----------------------------------------------------------------------------
(* A TodoItem on its own, with every field: construction, setters,          *)
(* mark_completed and is_overdue.                                          *)

\* Seconds since the epoch, as SystemTime::now() and due dates give them.
Times == 0..MaxTime

Titles == {"Task", "Renamed"}
Descriptions == {"Details"}
MetaKeys == {"category", "context"}
MetaValues == {"work", "office"}

\* Option<T> of the description and the due date: None and Some(x).
Absent == <<>>
Some(x) == <<x>>

\* TodoItem::new(title), with the Uuid and the clock reading it draws.
new(title, id, now) ==
    [id |-> id,
     title |-> title,
     description |-> Absent,
     status |-> "NotStarted",
     priority |-> "Medium",
     created_at |-> now,
     due_date |-> Absent,
     parent_id |-> None,
     metadata |-> [k \in {} |-> "work"]]

set_title(it, title) == [it EXCEPT !.title = title]

\* set_description that keeps the old text when given None.
set_description_keep(it, description) ==
    IF description = Absent THEN it ELSE [it EXCEPT !.description = description]

set_description(it, description) == [it EXCEPT !.description = description]

set_status(it, status) == [it EXCEPT !.status = status]

set_priority(it, priority) == [it EXCEPT !.priority = priority]

set_due_date(it, due_date) == [it EXCEPT !.due_date = due_date]

set_parent_id(it, parent_id) == [it EXCEPT !.parent_id = parent_id]

set_metadata(it, key, value) == [it EXCEPT !.metadata = MapInsert(@, key, value)]

\* remove_metadata returns the removed value, if there was one.
remove_metadata(it, key) ==
    [item |-> [it EXCEPT !.metadata = MapRemove(@, key)],
     ret |-> IF key \in DOMAIN it.metadata THEN Some(it.metadata[key]) ELSE Absent]

is_completed(it) == it.status = "Completed"

mark_completed(it) == [it EXCEPT !.status = "Completed"]

\* is_overdue that counts an item due at this very second as overdue.
is_overdue_inclusive(it, now) ==
    IF it.due_date # Absent
    THEN it.due_date[1] <= now /\ ~is_completed(it)
    ELSE FALSE

\* is_overdue, with now the clock reading it samples.
is_overdue(it, now) ==
    IF it.due_date # Absent
    THEN it.due_date[1] < now /\ ~is_completed(it)
    ELSE FALSE

\* A bool as the call record keeps it.
Bool(b) == IF b THEN "true" ELSE "false"

\* An item just built by TodoItem::new, at the earliest or the latest clock
\* reading (no method reads or writes created_at).
InitItem ==
    /\ items = [i \in {} |-> TodoItem(None, None)]
    /\ hierarchy = [k \in Keys |-> {}]
    /\ last = Call("new", None, None, "Ok")
    /\ inserts = 0
    /\ nops = 0
    /\ mutex = None
    /\ pc = [t \in Threads |-> Idle]
    /\ widget_mutex = [t \in Threads |-> None]
    /\ \E title \in Titles, id \in Least({}), now \in {0, MaxTime} :
         todo_item = new(title, id, now)

\* One call on the item: what it leaves and what the call record holds.
ItemCall(after, op, a, b, result) ==
    /\ Running
    /\ todo_item' = after
    /\ last' = Call(op, a, b, result)
    /\ nops' = nops + 1
    /\ UNCHANGED <<items, hierarchy, inserts, mutex, pc, widget_mutex>>

ItemSetTitle ==
    \E title \in Titles :
        ItemCall(set_title(todo_item, title), "set_title", title, None, "Ok")

ItemSetDescription ==
    \E description \in {Absent} \cup {Some(d) : d \in Descriptions} :
        ItemCall(set_description(todo_item, description),
                 "set_description", description, None, "Ok")

ItemSetStatus ==
    \E status \in Statuses :
        ItemCall(set_status(todo_item, status), "set_status", status, None, "Ok")

ItemSetPriority ==
    \E priority \in Priorities :
        ItemCall(set_priority(todo_item, priority), "set_priority", priority, None, "Ok")

ItemSetDueDate ==
    \E due_date \in {Absent} \cup {Some(t) : t \in Times} :
        ItemCall(set_due_date(todo_item, due_date), "set_due_date", due_date, None, "Ok")

\* set_parent_id(None), with the item's own id and with another id: two ids
\* other than the item's own are interchangeable.
ItemSetParentId ==
    \E parent_id \in {None} \cup Least({}) \cup Least(Least({})) :
        ItemCall(set_parent_id(todo_item, parent_id), "set_parent_id", parent_id, None, "Ok")

ItemSetMetadata ==
    \E key \in MetaKeys, value \in MetaValues :
        ItemCall(set_metadata(todo_item, key, value), "set_metadata", key, value, "Ok")

ItemRemoveMetadata ==
    \E key \in MetaKeys :
        LET out == remove_metadata(todo_item, key)
        IN  ItemCall(out.item, "remove_metadata", key, None, out.ret)

ItemMarkCompleted ==
    ItemCall(mark_completed(todo_item), "mark_completed", None, None, "Ok")

\* is_overdue(): the call samples the clock.
ItemIsOverdue ==
    \E now \in Times :
        ItemCall(todo_item, "is_overdue", now, None, Bool(is_overdue(todo_item, now)))

NextItem ==
    \/ ItemSetTitle
    \/ ItemSetDescription
    \/ ItemSetStatus
    \/ ItemSetPriority
    \/ ItemSetDueDate
    \/ ItemSetParentId
    \/ ItemSetMetadata
    \/ ItemRemoveMetadata
    \/ ItemMarkCompleted
    \/ ItemIsOverdue

SpecItem == InitItem /\ [][NextItem]_vars

----------------------------------------------------------------------------
(* The store shared behind its mutex, as TodoListWidget uses it: each      *)
(* thread runs one widget or callback operation at a time, statement by    *)
(* statement.                                                              *)

\* The stores main() builds before it hands the Arc to the widget: n calls
\* of add_item with TodoItem::new(..), with or without .with_parent(id) of
\* an item added before.
RECURSIVE seeded(_)
seeded(n) ==
    IF n = 0 THEN {Outcome([i \in {} |-> TodoItem(None, None)], [k \in Keys |-> {}], None)}
    ELSE LET S == seeded(n - 1)
         IN  S \cup UNION {
                 {add_item(s.items, s.hierarchy, TodoItem(id, parent_id)) :
                      id \in Fresh(s.items, s.hierarchy),
                      parent_id \in {None} \cup DOMAIN s.items} : s \in S}

\* The statuses the checkbox of an item widget toggles between.
CheckboxStatuses == {"NotStarted", "Completed"}

\* The create_item calls that were asked for and have not yet stored an item.
PendingCreates ==
    {t \in Threads : pc[t].op = "create_item" /\ pc[t].step \in {"waiting", "locked"}}

InitUI ==
    /\ \E s \in seeded(MaxIds - 1) :
         /\ items = s.items
         /\ hierarchy = s.hierarchy
    /\ last = Call("new", None, None, "Ok")
    /\ inserts = 0
    /\ nops = 0
    /\ mutex = None
    /\ pc = [t \in Threads |-> Idle]
    /\ widget_mutex = [t \in Threads |-> None]
    /\ todo_item = NoItem

\* A UI event reaches a handler or callback, which calls lock() on the store
\* and blocks until it gets the guard: Enter in the title input
\* (create_item), the delete callback of an item widget (remove_item), its
\* status callback (get_item_mut + set_status), a refresh of the item
\* widgets (all_items).
Event(t) ==
    /\ Running
    /\ pc[t].step = "idle"
    /\ \E op \in {"create_item", "remove_item", "set_status", "all_items"} :
         /\ op = "create_item"
               => Cardinality(Used(items, hierarchy)) + Cardinality(PendingCreates) < MaxIds
         /\ pc' = [pc EXCEPT ![t] = [Idle EXCEPT !.op = op, !.step = "waiting"]]
    /\ nops' = nops + 1
    /\ UNCHANGED <<items, hierarchy, last, inserts, mutex, todo_item, widget_mutex>>

\* lock() returns the guard without waiting for the mutex to be free.
lock_no_wait(t) ==
    /\ pc[t].step = "waiting"
    /\ mutex' = t
    /\ pc' = [pc EXCEPT ![t].step = "locked"]
    /\ UNCHANGED <<items, hierarchy, last, inserts, nops, todo_item, widget_mutex>>

\* self.todo_list.lock(): returns the guard once no thread holds it.
lock(t) ==
    /\ pc[t].step = "waiting"
    /\ mutex = None
    /\ mutex' = t
    /\ pc' = [pc EXCEPT ![t].step = "locked"]
    /\ UNCHANGED <<items, hierarchy, last, inserts, nops, todo_item, widget_mutex>>

\* create_item, first statement of add_item: self.items.insert(id, item).
CreateInsert(t) ==
    /\ pc[t].op = "create_item"
    /\ pc[t].step = "locked"
    /\ \E fresh \in Fresh(items, hierarchy) :
         /\ items' = create_item(items, hierarchy, fresh).items
         /\ pc' = [pc EXCEPT ![t].step = "inserted", ![t].id = fresh]
    /\ UNCHANGED <<hierarchy, last, inserts, nops, mutex, todo_item, widget_mutex>>

\* create_item, second statement of add_item: the insert into the bucket.
CreateBucket(t) ==
    /\ pc[t].op = "create_item"
    /\ pc[t].step = "inserted"
    /\ hierarchy' = create_item(items, hierarchy, pc[t].id).hierarchy
    /\ pc' = [pc EXCEPT ![t].step = "done"]
    /\ UNCHANGED <<items, last, inserts, nops, mutex, todo_item, widget_mutex>>

\* remove_item(item_id) up to its last statement: the early return for an id
\* that is not stored, or else the removal of the children and the detach
\* from the parent's bucket, with the item itself still in items.  item_id
\* is the id the delete callback captured: a stored one, or one that is
\* not stored any more.
RemoveDetach(t) ==
    /\ pc[t].op = "remove_item"
    /\ pc[t].step = "locked"
    /\ \E item_id \in Args(items, hierarchy) :
       \E out \in remove_item(items, hierarchy, item_id) :
         IF out.ret = "None"
         THEN /\ UNCHANGED <<items, hierarchy>>
              /\ pc' = [pc EXCEPT ![t].step = "done"]
         ELSE /\ items' = MapInsert(out.items, item_id, items[item_id])
              /\ hierarchy' = out.hierarchy
              /\ pc' = [pc EXCEPT ![t].step = "detached", ![t].id = item_id]
    /\ UNCHANGED <<last, inserts, nops, mutex, todo_item, widget_mutex>>

\* remove_item, last statement: self.items.remove(&id).
RemoveErase(t) ==
    /\ pc[t].op = "remove_item"
    /\ pc[t].step = "detached"
    /\ items' = MapRemove(items, pc[t].id)
    /\ pc' = [pc EXCEPT ![t].step = "done"]
    /\ UNCHANGED <<hierarchy, last, inserts, nops, mutex, todo_item, widget_mutex>>

\* The status callback: get_item_mut(item_id), and set_status(status) on the
\* item if it is Some.
SetStatus(t) ==
    /\ pc[t].op = "set_status"
    /\ pc[t].step = "locked"
    /\ \E item_id \in Args(items, hierarchy), status \in CheckboxStatuses :
         items' = IF item_id \in DOMAIN items
                  THEN [items EXCEPT ![item_id].status = status]
                  ELSE items
    /\ pc' = [pc EXCEPT ![t].step = "done"]
    /\ UNCHANGED <<hierarchy, last, inserts, nops, mutex, todo_item, widget_mutex>>

\* update_todo_items / setup_todo_item_widgets: the all_items() snapshot.
AllItems(t) ==
    /\ pc[t].op = "all_items"
    /\ pc[t].step = "locked"
    /\ pc' = [pc EXCEPT ![t].step = "done"]
    /\ UNCHANGED <<items, hierarchy, last, inserts, nops, mutex, todo_item, widget_mutex>>

\* The guard goes out of scope (after the external callback, if any).
Unlock(t) ==
    /\ pc[t].step = "done"
    /\ mutex' = None
    /\ pc' = [pc EXCEPT ![t] = Idle]
    /\ UNCHANGED <<items, hierarchy, last, inserts, nops, todo_item, widget_mutex>>

NextUI ==
    \E t \in Threads :
        \/ Event(t)
        \/ lock(t)
        \/ CreateInsert(t)
        \/ CreateBucket(t)
        \/ RemoveDetach(t)
        \/ RemoveErase(t)
        \/ SetStatus(t)
        \/ AllItems(t)
        \/ Unlock(t)

SpecUI == InitUI /\ [][NextUI]_vars

-----------------------------------------------------------------------------
(* The event handlers of a TodoListWidget and the locks they take.  Every   *)
(* thread owns one TodoListWidget (a clone shares the store and builds its  *)
(* own item widgets).  pc[t].op is the function the thread is in,           *)
(* pc[t].step says whether it is blocked in a lock() call or inside the     *)
(* scope of the guard.                                                      *)

\* handle_key_press, Enter in the focused title input with a title: the
\* handler calls lock() on the store.
KeyPress(t) ==
    /\ Running
    /\ pc[t].step = "idle"
    /\ Cardinality(Used(items, hierarchy))
         + Cardinality({u \in Threads : pc[u].op = "handle_key_press"}) < MaxIds
    /\ pc' = [pc EXCEPT ![t] =
                [Idle EXCEPT !.op = "handle_key_press", !.step = "waiting"]]
    /\ nops' = nops + 1
    /\ UNCHANGED <<items, hierarchy, last, inserts, mutex, todo_item, widget_mutex>>

\* handle_filter_controls_click on the status dropdown or the search box:
\* setup_todo_item_widgets calls lock() on the store.
FilterClick(t) ==
    /\ Running
    /\ pc[t].step = "idle"
    /\ pc' = [pc EXCEPT ![t] =
                [Idle EXCEPT !.op = "setup_todo_item_widgets", !.step = "waiting"]]
    /\ nops' = nops + 1
    /\ UNCHANGED <<items, hierarchy, last, inserts, mutex, todo_item, widget_mutex>>

\* handle_mouse_up: the loop over the item widgets calls widget.lock().
MouseUp(t) ==
    /\ Running
    /\ pc[t].step = "idle"
    /\ pc' = [pc EXCEPT ![t] =
                [Idle EXCEPT !.op = "handle_mouse_up", !.step = "waiting_widget"]]
    /\ nops' = nops + 1
    /\ UNCHANGED <<items, hierarchy, last, inserts, mutex, todo_item, widget_mutex>>

\* widget.lock() on an Arc<Mutex<TodoItemWidget>> of the thread's list
\* widget: returns the guard once no thread holds it.
lock_widget(t) ==
    /\ pc[t].step = "waiting_widget"
    /\ widget_mutex[t] = None
    /\ widget_mutex' = [widget_mutex EXCEPT ![t] = t]
    /\ pc' = [pc EXCEPT ![t].step = "locked_widget"]
    /\ UNCHANGED <<items, hierarchy, last, inserts, nops, mutex, todo_item>>

\* handle_key_press keeps the store guard while it calls update_todo_items.
KeyPressCreate_guard_kept(t) ==
    /\ pc[t].op = "handle_key_press"
    /\ pc[t].step = "locked"
    /\ \E fresh \in Fresh(items, hierarchy) :
         LET out == create_item(items, hierarchy, fresh)
         IN  /\ items' = out.items
             /\ hierarchy' = out.hierarchy
    /\ pc' = [pc EXCEPT ![t] =
                [Idle EXCEPT !.op = "update_todo_items", !.step = "waiting"]]
    /\ UNCHANGED <<last, inserts, nops, mutex, todo_item, widget_mutex>>

\* handle_key_press inside the store guard: create_item(title); the guard
\* is dropped at the end of the if-let, and update_todo_items then calls
\* lock() on the store.
KeyPressCreate(t) ==
    /\ pc[t].op = "handle_key_press"
    /\ pc[t].step = "locked"
    /\ \E fresh \in Fresh(items, hierarchy) :
         LET out == create_item(items, hierarchy, fresh)
         IN  /\ items' = out.items
             /\ hierarchy' = out.hierarchy
    /\ mutex' = None
    /\ pc' = [pc EXCEPT ![t] =
                [Idle EXCEPT !.op = "update_todo_items", !.step = "waiting"]]
    /\ UNCHANGED <<last, inserts, nops, todo_item, widget_mutex>>

\* update_todo_items inside the store guard: the all_items() snapshot; the
\* guard is dropped at the end of the block, and setup_todo_item_widgets
\* then calls lock() on the store.
UpdateTodoItems(t) ==
    /\ pc[t].op = "update_todo_items"
    /\ pc[t].step = "locked"
    /\ mutex' = None
    /\ pc' = [pc EXCEPT ![t] =
                [Idle EXCEPT !.op = "setup_todo_item_widgets", !.step = "waiting"]]
    /\ UNCHANGED <<items, hierarchy, last, inserts, nops, todo_item, widget_mutex>>

\* setup_todo_item_widgets inside the store guard: the all_items()
\* snapshot; the guard is dropped at the end of the block, and the
\* collection of the expanded ids then calls lock() on an item widget.
SetupTodoItemWidgets(t) ==
    /\ pc[t].op = "setup_todo_item_widgets"
    /\ pc[t].step = "locked"
    /\ mutex' = None
    /\ pc' = [pc EXCEPT ![t] =
                [Idle EXCEPT !.op = "expanded_item_ids", !.step = "waiting_widget"]]
    /\ UNCHANGED <<items, hierarchy, last, inserts, nops, todo_item, widget_mutex>>

\* setup_todo_item_widgets inside the guard of an expanded item widget: it
\* reads the id; the guard is dropped, the widgets are rebuilt and
\* setup_todo_item_callbacks calls lock() on a new item widget.
ExpandedItemIds(t) ==
    /\ pc[t].op = "expanded_item_ids"
    /\ pc[t].step = "locked_widget"
    /\ widget_mutex' = [widget_mutex EXCEPT ![t] = None]
    /\ pc' = [pc EXCEPT ![t] =
                [Idle EXCEPT !.op = "setup_todo_item_callbacks",
                             !.step = "waiting_widget"]]
    /\ UNCHANGED <<items, hierarchy, last, inserts, nops, mutex, todo_item>>

\* setup_todo_item_callbacks inside the guard of the new item widget: it
\* stores the three callbacks; the guard is dropped and the handler returns.
SetupTodoItemCallbacks(t) ==
    /\ pc[t].op = "setup_todo_item_callbacks"
    /\ pc[t].step = "locked_widget"
    /\ widget_mutex' = [widget_mutex EXCEPT ![t] = None]
    /\ pc' = [pc EXCEPT ![t] = Idle]
    /\ UNCHANGED <<items, hierarchy, last, inserts, nops, mutex, todo_item>>

\* TodoItemWidget::handle_mouse_up inside the item widget's guard: a click
\* on the checkbox calls the status callback, a click on the delete button
\* calls the delete callback, and both call lock() on the store; any other
\* click returns, and the guard is dropped.
ItemMouseUp(t) ==
    /\ pc[t].op = "handle_mouse_up"
    /\ pc[t].step = "locked_widget"
    /\ \/ /\ pc' = [pc EXCEPT ![t] =
                      [Idle EXCEPT !.op = "status_callback", !.step = "waiting"]]
          /\ UNCHANGED widget_mutex
       \/ /\ pc' = [pc EXCEPT ![t] =
                      [Idle EXCEPT !.op = "delete_callback", !.step = "waiting"]]
          /\ UNCHANGED widget_mutex
       \/ /\ pc' = [pc EXCEPT ![t] = Idle]
          /\ widget_mutex' = [widget_mutex EXCEPT ![t] = None]
    /\ UNCHANGED <<items, hierarchy, last, inserts, nops, mutex, todo_item>>

\* The status callback inside the store guard: get_item_mut(item_id) and
\* set_status(status), then the external callback; the store guard is
\* dropped, the callback returns and the item widget's guard is dropped.
StatusCallback(t) ==
    /\ pc[t].op = "status_callback"
    /\ pc[t].step = "locked"
    /\ \E item_id \in Args(items, hierarchy), status \in CheckboxStatuses :
         items' = IF item_id \in DOMAIN items
                  THEN [items EXCEPT ![item_id].status = status]
                  ELSE items
    /\ mutex' = None
    /\ widget_mutex' = [widget_mutex EXCEPT ![t] = None]
    /\ pc' = [pc EXCEPT ![t] = Idle]
    /\ UNCHANGED <<hierarchy, last, inserts, nops, todo_item>>

\* The delete callback inside the store guard: remove_item(item_id), then
\* the external callback; the store guard is dropped, the callback returns
\* and the item widget's guard is dropped.
DeleteCallback(t) ==
    /\ pc[t].op = "delete_callback"
    /\ pc[t].step = "locked"
    /\ \E item_id \in Args(items, hierarchy) :
       \E out \in remove_item(items, hierarchy, item_id) :
         /\ items' = out.items
         /\ hierarchy' = out.hierarchy
    /\ mutex' = None
    /\ widget_mutex' = [widget_mutex EXCEPT ![t] = None]
    /\ pc' = [pc EXCEPT ![t] = Idle]
    /\ UNCHANGED <<last, inserts, nops, todo_item>>

NextEvents ==
    \E t \in Threads :
        \/ KeyPress(t)
        \/ FilterClick(t)
        \/ MouseUp(t)
        \/ lock(t)
        \/ lock_widget(t)
        \/ KeyPressCreate(t)
        \/ UpdateTodoItems(t)
        \/ SetupTodoItemWidgets(t)
        \/ ExpandedItemIds(t)
        \/ SetupTodoItemCallbacks(t)
        \/ ItemMouseUp(t)
        \/ StatusCallback(t)
        \/ DeleteCallback(t)

SpecEvents == InitUI /\ [][NextEvents]_vars

-----------------------------------------------------------------------------
(* replace_item_at_index.                                                  *)

\* A TodoItem the caller built with the builders: any id, parent and status.
BuiltItem(id, parent_id, status) ==
    [TodoItem(id, parent_id) EXCEPT !.status = status]

\* None for an id that is not a key; otherwise the new item, with the stored
\* item's parent_id, is stored under the key id and returned.
replace_item_at_index_own_parent(its, hier, id, new_item) ==
    IF id \notin DOMAIN its
    THEN Outcome(its, hier, Absent)
    ELSE Outcome(MapInsert(its, id, new_item), hier, Some(new_item))

replace_item_at_index(its, hier, id, new_item) ==
    IF id \notin DOMAIN its
    THEN Outcome(its, hier, Absent)
    ELSE LET original == its[id]
             item_to_insert ==
                 [new_item EXCEPT !.parent_id = original.parent_id]
         IN  Outcome(MapInsert(its, id, item_to_insert), hier,
                     Some(item_to_insert))

\* replace_item_at_index with an item the caller built: any key, and a new
\* item with any id, any parent_id and either status.
Replace ==
    /\ Running
    /\ inserts < MaxInserts
    /\ \E id \in Args(items, hierarchy) :
       \E new_id \in Args(items, hierarchy) :
       \E parent_id \in {None} \cup Used(items, hierarchy) :
       \E status \in CheckboxStatuses :
         LET new_item == BuiltItem(new_id, parent_id, status)
             out == replace_item_at_index(items, hierarchy, id, new_item)
         IN  /\ items' = out.items
             /\ hierarchy' = out.hierarchy
             /\ last' = Call("replace", id, new_item,
                             IF out.ret = Absent THEN "None" ELSE "Some")
             /\ todo_item' = out.ret
             /\ inserts' = inserts + 1
             /\ nops' = nops + 1
             /\ UNCHANGED <<mutex, pc, widget_mutex>>

\* create, insert, move, remove and replace only.
NextReplace == Create \/ Insert \/ Move \/ Remove \/ Replace

SpecReplace == Init /\ [][NextReplace]_vars

----------------------------------------------------------------------------
(* Vocabulary of the properties.                                           *)

\* The ids met by following parent_id links upward from id.
RECURSIVE AncestorsWalk(_, _, _)
AncestorsWalk(its, id, seen) ==
    LET p == parent_of(its, id)
    IN  IF p = None \/ p \in seen THEN seen
        ELSE AncestorsWalk(its, p, seen \cup {p})

Ancestors(its, id) == AncestorsWalk(its, id, {})

\* The stored items that have id among their ancestors.
Descendants(its, id) == {x \in DOMAIN its : id \in Ancestors(its, x)}

\* The keys of the buckets id is a member of.
BucketsOf(hier, id) == {k \in Keys : id \in hier[k]}

\* items, the buckets and the parent_id fields agree: every stored id is a
\* member of the bucket of its parent_id and of no other, and every bucket
\* member is stored.
Consistent(its, hier) ==
    /\ \A id \in DOMAIN its : BucketsOf(hier, id) = {its[id].parent_id}
    /\ \A k \in Keys : hier[k] \subseteq DOMAIN its

\* The errors move_item and move_item_before return.
ErrorResults == {"ItemNotFound", "ParentNotFound", "TargetNotFound", "CycleDetected"}

----------------------------------------------------------------------------
(* Properties.                                                             *)

\* C1: after any sequence of create, insert, remove and move calls, every id
\* that is a key of items is a member of exactly one hierarchy bucket, the
\* one keyed by the item's parent_id.
C1_OneBucketPerItem ==
    \A id \in DOMAIN items : BucketsOf(hierarchy, id) = {items[id].parent_id}

\* C2: move(a, Some(b)) on two stored items returns the cycle error whenever
\* b = a or a is an ancestor of b.
C2_CycleRejected ==
    [][ (/\ last'.op = "move"
         /\ last'.a \in DOMAIN items
         /\ last'.b \in DOMAIN items
         /\ (last'.b = last'.a \/ last'.a \in Ancestors(items, last'.b)))
        => last'.result = "CycleDetected" ]_vars

\* C3: in every state reached through create, move, move_before and remove
\* no item is its own transitive ancestor.
C3_Acyclic ==
    \A id \in DOMAIN items : id \notin Ancestors(items, id)

\* C4: move(a, p) succeeds and sets a's parent_id to p when a is stored and p
\* is None or a stored item other than a of which a is not an ancestor.
C4_LegalMoveSucceeds ==
    [][ (/\ last'.op = "move"
         /\ last'.a \in DOMAIN items
         /\ \/ last'.b = None
            \/ /\ last'.b \in DOMAIN items
               /\ last'.b # last'.a
               /\ last'.a \notin Ancestors(items, last'.b))
        => (/\ last'.result = "Ok"
            /\ last'.a \in DOMAIN items'
            /\ items'[last'.a].parent_id = last'.b) ]_vars

\* C5: the ancestor walk of move terminates in every state reached through
\* create, insert, move, move_before and remove: no move or move_before call
\* fails to return.
C5_WalkTerminates ==
    last.op \in {"move", "move_before"} => last.result # "NoReturn"

\* C6: a move or move_before call that returns an error leaves items, every
\* parent_id and every hierarchy bucket as they were before the call.
C6_ErrorLeavesStore ==
    [][ (last'.op \in {"move", "move_before"} /\ last'.result \in ErrorResults)
        => (items' = items /\ hierarchy' = hierarchy) ]_vars

\* A move_before call on two stored items of different parents has just been
\* rejected by the cycle check of its inner move.
C6_Witness ==
    /\ last.op = "move_before"
    /\ last.result = "CycleDetected"
    /\ {last.a, last.b} \subseteq DOMAIN items
    /\ items[last.a].parent_id # items[last.b].parent_id

\* C7: move returns the item-not-found error whenever item_id is not stored,
\* the parent-not-found error when item_id is stored and new_parent is
\* Some(p) with p not stored, and never a missing parent for new_parent None.
C7_MoveNotFound ==
    [][ last'.op = "move"
        => (/\ last'.a \notin DOMAIN items => last'.result = "ItemNotFound"
            /\ (last'.a \in DOMAIN items /\ last'.b # None /\ last'.b \notin DOMAIN items)
                   => last'.result = "ParentNotFound"
            /\ last'.b = None => last'.result # "ParentNotFound") ]_vars

\* A move of a stored item under an id that is not stored has just been
\* rejected with the parent-not-found error.
C7_Witness ==
    /\ last.op = "move"
    /\ last.result = "ParentNotFound"
    /\ last.a \in DOMAIN items
    /\ last.b \notin DOMAIN items

\* C8: remove(parent) on an item that has descendants removes parent and
\* every transitive descendant from items and nothing else (so len() drops
\* by the size of the subtree).
C8_RemoveSubtree ==
    [][ (/\ last'.op = "remove"
         /\ last'.a \in DOMAIN items
         /\ Descendants(items, last'.a) # {})
        => (/\ DOMAIN items' = (DOMAIN items) \ ({last'.a} \cup Descendants(items, last'.a))
            /\ len(items') = len(items) - Cardinality({last'.a} \cup Descendants(items, last'.a))) ]_vars

\* C9: after remove(id) on a stored id, in a state reached through create,
\* insert, move and remove, neither id nor any id removed with it is a key
\* of items, a member of a hierarchy bucket or the parent_id of an item.
C9_RemovedUnreachable ==
    [][ (last'.op = "remove" /\ last'.a \in DOMAIN items)
        => \A r \in {last'.a} \cup ((DOMAIN items) \ (DOMAIN items')) :
              /\ r \notin DOMAIN items'
              /\ BucketsOf(hierarchy', r) = {}
              /\ \A i \in DOMAIN items' : items'[i].parent_id # r ]_vars

\* C10: remove(id) returns the removed item exactly when id was a key of
\* items immediately before the call.
C10_RemoveReturnsItem ==
    [][ last'.op = "remove"
        => (last'.result = "Some" <=> last'.a \in DOMAIN items) ]_vars

\* C11: remove(id) with an id that is not stored returns absent and leaves
\* items, every parent_id and every hierarchy bucket unchanged.
C11_RemoveUnknownNoOp ==
    [][ (last'.op = "remove" /\ last'.a \notin DOMAIN items)
        => (/\ last'.result = "None"
            /\ items' = items
            /\ hierarchy' = hierarchy) ]_vars

\* A remove has just returned absent for an id that is not stored although
\* a bucket still lists it.
C11_Witness ==
    /\ last.op = "remove"
    /\ last.result = "None"
    /\ last.a \notin DOMAIN items
    /\ BucketsOf(hierarchy, last.a) # {}


\* The listing v is a pre-order depth-first listing of the store: no item
\* twice, parentless items at depth 0, every other item one level below its
\* parent, after it and before the parent's next sibling.
PreOrder(its, v) ==
    /\ \A i, j \in DOMAIN v : i # j => v[i].id # v[j].id
    /\ \A i \in DOMAIN v :
          IF parent_of(its, v[i].id) = None
          THEN v[i].depth = 0
          ELSE \E j \in 1..(i - 1) :
                  /\ v[j].id = parent_of(its, v[i].id)
                  /\ v[i].depth = v[j].depth + 1
                  /\ \A k \in (j + 1)..i : v[k].depth > v[j].depth

\* C12: hierarchical_view() is a pre-order depth-first listing: roots at
\* depth 0, every other listed item at its parent's depth plus one, after its
\* parent and before the parent's next sibling, and no item twice.
C12_ViewIsPreOrder ==
    ~view_diverges(items, hierarchy)
        => \A v \in hierarchical_view(items, hierarchy) : PreOrder(items, v)

\* C13: after any sequence of create, move and remove calls
\* hierarchical_view() lists every stored item exactly once, so its length
\* is len().
C13_ViewListsEveryItem ==
    /\ ~view_diverges(items, hierarchy)
    /\ \A v \in hierarchical_view(items, hierarchy) :
          /\ Len(v) = len(items)
          /\ {v[i].id : i \in DOMAIN v} = DOMAIN items

\* C14: a successful move_before(item_id, target_id) leaves every item in
\* exactly one bucket, the one keyed by its parent_id: the bucket of target's
\* parent holds its previous members plus item_id, item_id is in no other
\* bucket and no id is lost, also when item_id = target_id.
C14_MoveBeforeKeepsBuckets ==
    [][ (last'.op = "move_before" /\ last'.result = "Ok")
        => LET item_id == last'.a
               parent_id == parent_of(items, last'.b)
           IN  /\ hierarchy'[parent_id] = hierarchy[parent_id] \cup {item_id}
               /\ BucketsOf(hierarchy', item_id) = {parent_id}
               /\ DOMAIN items' = DOMAIN items
               /\ UNION {hierarchy[k] : k \in Keys} \subseteq UNION {hierarchy'[k] : k \in Keys} ]_vars

\* C15: move_before(x, target) on a bucket that holds both, iterated in some
\* order, leaves the bucket iterating in that order with x taken out and put
\* back immediately before target ([p, target, q] with x elsewhere becomes
\* [p, x, target, q]).
C15_MoveBeforeOrder ==
    [][ (/\ last'.op = "move_before"
         /\ last'.result = "Ok"
         /\ last'.a # last'.b
         /\ {last'.a, last'.b} \subseteq DOMAIN items
         /\ items[last'.a].parent_id = items[last'.b].parent_id
         /\ {last'.a, last'.b} \subseteq hierarchy[items[last'.b].parent_id])
        => \A before \in Orders(hierarchy[items[last'.b].parent_id]) :
           \A after \in Orders(hierarchy'[items[last'.b].parent_id]) :
               after = new_order(before, last'.a, last'.b) ]_vars

\* C16: when item_id and target_id have different parents, move_before
\* first performs move(item_id, target's parent): if that move is rejected
\* move_before returns its error, otherwise item_id's parent_id is then
\* target_id's parent_id and item_id is a member of target's parent's bucket
\* and of no other bucket.
C16_MoveBeforeReparents ==
    [][ (/\ last'.op = "move_before"
         /\ {last'.a, last'.b} \subseteq DOMAIN items
         /\ items[last'.a].parent_id # items[last'.b].parent_id)
        => LET moved == move_item(items, hierarchy, last'.a, items[last'.b].parent_id)
           IN  IF moved.ret # "Ok"
               THEN last'.result = moved.ret
               ELSE /\ last'.result = "Ok"
                    /\ items'[last'.a].parent_id = items'[last'.b].parent_id
                    /\ BucketsOf(hierarchy', last'.a) = {items'[last'.b].parent_id} ]_vars

\* The not-found errors of move_item and move_item_before.
NotFoundResults == {"ItemNotFound", "TargetNotFound", "ParentNotFound"}

\* C17 as stated: move_before returns a not-found error whenever item_id or
\* target_id is not stored, and never when both are stored.
C17_MoveBeforeNotFound ==
    [][ last'.op = "move_before"
        => (last'.result \in NotFoundResults
               <=> (last'.a \notin DOMAIN items \/ last'.b \notin DOMAIN items)) ]_vars

\* The parents of two stored items differ and target's parent_id names an id
\* that is not stored.
TargetParentMissing(its, item_id, target_id) ==
    /\ its[item_id].parent_id # its[target_id].parent_id
    /\ its[target_id].parent_id # None
    /\ its[target_id].parent_id \notin DOMAIN its

\* C17 amended: move_before returns a not-found error whenever item_id or
\* target_id is not stored; when both are stored it returns one only if their
\* parents differ and target's parent_id is not stored, and that one is the
\* parent-not-found error of the inner move.
C17_MoveBeforeNotFoundAmended ==
    [][ last'.op = "move_before"
        => IF last'.a \notin DOMAIN items \/ last'.b \notin DOMAIN items
           THEN last'.result \in NotFoundResults
           ELSE IF TargetParentMissing(items, last'.a, last'.b)
           THEN last'.result = "ParentNotFound"
           ELSE last'.result \notin NotFoundResults ]_vars

\* A move_before of two stored items has just returned the parent-not-found
\* error because target's parent_id is not stored.
C17_Witness ==
    /\ last.op = "move_before"
    /\ last.result = "ParentNotFound"
    /\ {last.a, last.b} \subseteq DOMAIN items
    /\ TargetParentMissing(items, last.a, last.b)

\* C18: in every state reached through create, insert, move, move_before
\* and remove, each item's parent_id, if present, is the id of a stored item.
C18_ParentStored ==
    \A id \in DOMAIN items :
        items[id].parent_id # None => items[id].parent_id \in DOMAIN items

\* C19: the ordered view is a function of the operation history: a store
\* reached by a sequence of operations has one hierarchical_view() sequence
\* (same items, same depths, same sibling order), whichever store ran them.
C19_ViewDeterministic ==
    ~view_diverges(items, hierarchy)
        => \A v1, v2 \in hierarchical_view(items, hierarchy) : v1 = v2

\* C20: with the store behind its mutex, every statement of a widget or
\* callback operation (create_item, remove_item, get_item_mut + set_status,
\* all_items) runs while its thread holds the guard, and the first statement
\* of each operation, the read of a reader included, finds items, the
\* buckets and the parent_id fields in agreement, whatever the interleaving.
C20_LockedOperations ==
    [][ \A t \in Threads :
          (pc'[t] # pc[t] /\ pc[t].step \notin {"idle", "waiting"})
              => /\ mutex = t
                 /\ pc[t].step = "locked" => Consistent(items, hierarchy) ]_vars

\* A refresh waits for the guard while another thread is between two
\* statements of a create_item or remove_item and the store disagrees.
C20_Witness ==
    \E t, u \in Threads :
        /\ pc[t].op = "all_items"
        /\ pc[t].step = "waiting"
        /\ pc[u].step \in {"inserted", "detached"}
        /\ mutex = u
        /\ ~Consistent(items, hierarchy)

\* C21: insert (add_item) always succeeds and returns the id carried by the
\* item; afterwards get(id) returns that item and id is a member of the
\* bucket keyed by the item's parent_id; for an id that was not stored,
\* len() grows by exactly one.
C21_InsertStores ==
    [][ last'.op = "insert"
        => LET id == last'.a
               parent_id == last'.b
           IN  /\ last'.result = "Ok"
               /\ id \in DOMAIN items'
               /\ items'[id] = TodoItem(id, parent_id)
               /\ id \in child_ids(hierarchy', parent_id)
               /\ id \notin DOMAIN items => len(items') = len(items) + 1 ]_vars

\* An item with a parent has just been inserted and is the only stored
\* item, a member of the bucket of its parent_id.
C21_Witness ==
    /\ last.op = "insert"
    /\ last.b # None
    /\ DOMAIN items = {last.a}
    /\ last.a \in child_ids(hierarchy, last.b)

\* The stored items whose parent_id names an id that is not stored.
Dangling(its) ==
    {id \in DOMAIN its : its[id].parent_id # None /\ its[id].parent_id \notin DOMAIN its}

\* C22: an item stored with a parent_id that is not in the store is omitted
\* from the hierarchy queries: it is not in root_items(), not in children(p)
\* of any stored p and not in hierarchical_view(), and the view returns.
C22_DanglingOmitted ==
    \A id \in Dangling(items) :
        /\ id \notin root_items(items, hierarchy)
        /\ \A p \in DOMAIN items : id \notin children_of(items, hierarchy, p)
        /\ ~view_diverges(items, hierarchy)
        /\ \A v \in hierarchical_view(items, hierarchy) :
              \A i \in DOMAIN v : v[i].id # id

\* C23: create(title) always succeeds and adds exactly one new item: the
\* returned id was not stored before, len() grows by one, the new item has
\* parent_id None, status NotStarted and priority Medium, and its id is a
\* member of the root bucket and returned by root_items().
C23_CreateAddsRoot ==
    [][ last'.op = "create"
        => LET id == last'.a
           IN  /\ last'.result = "Ok"
               /\ id \notin DOMAIN items
               /\ DOMAIN items' = DOMAIN items \cup {id}
               /\ len(items') = len(items) + 1
               /\ items'[id].id = id
               /\ items'[id].parent_id = None
               /\ items'[id].status = "NotStarted"
               /\ items'[id].priority = "Medium"
               /\ \A other \in DOMAIN items : items'[other] = items[other]
               /\ id \in root_item_ids(hierarchy')
               /\ id \in root_items(items', hierarchy') ]_vars

\* A create has just added a root item to a store that already held others.
C23_Witness ==
    /\ last.op = "create"
    /\ last.a \in root_items(items, hierarchy)
    /\ len(items) >= 2

\* No element of the sequence occurs twice.
NoRepeat(seq) == \A i, j \in DOMAIN seq : i # j => seq[i] # seq[j]

IndexOf(seq, x) == CHOOSE i \in DOMAIN seq : seq[i] = x

\* C25: sorted(key_fn) returns every stored item exactly once, in
\* non-decreasing order of key_fn, items of equal key in the relative order
\* in which the items collection yielded them.
C25_SortedStable ==
    [][ last'.op = "sorted"
        => LET key_fn == last'.a
               yielded == last'.b
               result == last'.result
           IN  /\ NoRepeat(result)
               /\ Range(result) = {items[id] : id \in DOMAIN items}
               /\ Len(result) = len(items)
               /\ \A i, j \in DOMAIN result :
                     i < j => key_fn[result[i].priority] <= key_fn[result[j].priority]
               /\ \A i, j \in DOMAIN result :
                     (i < j /\ key_fn[result[i].priority] = key_fn[result[j].priority])
                         => IndexOf(yielded, result[i]) < IndexOf(yielded, result[j]) ]_vars

\* A sort by priority has just returned three items, two of equal key, in
\* an order other than the one the collection yielded.
C25_Witness ==
    /\ last.op = "sorted"
    /\ last.a = PriorityOrd
    /\ Len(last.result) = 3
    /\ last.result # last.b
    /\ \E i, j \in DOMAIN last.result :
          i # j /\ last.result[i].priority = last.result[j].priority

\* C26: is_overdue() is true if and only if due_date is set, is strictly
\* earlier than the time sampled at the call, and status is not Completed;
\* and after mark_completed the item is overdue at no time.
C26_OverdueIff ==
    [][ /\ last'.op = "is_overdue"
           => (last'.result = "true"
                  <=> \E due \in Times :
                         /\ todo_item.due_date = Some(due)
                         /\ due < last'.a
                         /\ todo_item.status # "Completed")
        /\ last'.op = "mark_completed"
           => \A now \in Times : ~is_overdue(todo_item', now) ]_vars

\* is_overdue() has just returned true for an item that is not completed
\* and was due before the sampled time.
C26_Witness ==
    /\ last.op = "is_overdue"
    /\ last.result = "true"
    /\ todo_item.due_date # Absent
    /\ todo_item.status = "InProgress"

\* The fields of a TodoItem.
Fields ==
    {"id", "title", "description", "status", "priority", "created_at",
     "due_date", "parent_id", "metadata"}

\* Items a and b agree on every field but those of except.
SameBut(a, b, except) == \A f \in Fields \ except : a[f] = b[f]

\* The field each plain setter writes.
SetterField ==
    [set_title |-> "title", set_description |-> "description",
     set_status |-> "status", set_priority |-> "priority",
     set_due_date |-> "due_date", set_parent_id |-> "parent_id"]

\* C27: every setter round-trips through its getter and touches no other
\* field: after set_X(v) the getter for X returns v; set_metadata(k, v)
\* makes metadata[k] = v and remove_metadata(k) makes k absent, every other
\* entry kept; id, created_at and all other fields keep their values.
C27_SettersRoundTrip ==
    [][ /\ last'.op \in DOMAIN SetterField
           => /\ todo_item'[SetterField[last'.op]] = last'.a
              /\ SameBut(todo_item', todo_item, {SetterField[last'.op]})
        /\ last'.op = "set_metadata"
           => /\ DOMAIN todo_item'.metadata = DOMAIN todo_item.metadata \cup {last'.a}
              /\ todo_item'.metadata[last'.a] = last'.b
              /\ \A k \in DOMAIN todo_item.metadata \ {last'.a} :
                    todo_item'.metadata[k] = todo_item.metadata[k]
              /\ SameBut(todo_item', todo_item, {"metadata"})
        /\ last'.op = "remove_metadata"
           => /\ DOMAIN todo_item'.metadata = DOMAIN todo_item.metadata \ {last'.a}
              /\ \A k \in DOMAIN todo_item'.metadata :
                    todo_item'.metadata[k] = todo_item.metadata[k]
              /\ SameBut(todo_item', todo_item, {"metadata"}) ]_vars

\* set_description(None) has just left without description an item whose
\* status, due date and metadata were set by earlier calls.
C27_Witness ==
    /\ last.op = "set_description"
    /\ last.a = Absent
    /\ todo_item.description = Absent
    /\ todo_item.status # "NotStarted"
    /\ DOMAIN todo_item.metadata # {}
    /\ todo_item.due_date # Absent

\* C28: a successful move(a, p) changes only a's placement: a leaves the
\* bucket of its old parent and is a member of bucket p, a's parent_id is
\* p, and len(), the set of ids, every other item, a's other fields and the
\* membership of every other id in every bucket are unchanged.
C28_MoveFrame ==
    [][ (last'.op = "move" /\ last'.result = "Ok")
        => LET a == last'.a
               p == last'.b
               old == parent_of(items, a)
           IN  /\ a \in hierarchy'[p]
               /\ old # p => a \notin hierarchy'[old]
               /\ items'[a] = [items[a] EXCEPT !.parent_id = p]
               /\ DOMAIN items' = DOMAIN items
               /\ len(items') = len(items)
               /\ \A other \in DOMAIN items \ {a} : items'[other] = items[other]
               /\ \A k \in Keys : hierarchy'[k] \ {a} = hierarchy[k] \ {a}
               /\ \A k \in Keys \ {old, p} : hierarchy'[k] = hierarchy[k] ]_vars

\* A move has just put an item into the bucket of a stored parent, in a
\* store that holds at least one more item.
C28_Witness ==
    /\ last.op = "move"
    /\ last.result = "Ok"
    /\ last.b # None
    /\ last.a \in hierarchy[last.b]
    /\ len(items) >= 3

\* C29: hierarchical_view() returns (with a finite list) in every state
\* reachable through create, insert, move, move_before and remove, stores
\* into which an id was inserted twice or as its own parent included.
C29_ViewTerminates == ~view_diverges(items, hierarchy)

\* C30: remove(id) returns in every reachable state, a parent_id cycle
\* included: each call takes the bucket of its id out of the index before it
\* descends, so the buckets only shrink, the bucket of a removed id is gone
\* and the id is no longer stored.
C30_RemoveTerminates ==
    [][ last'.op = "remove"
        => /\ last'.result \in {"Some", "None"}
           /\ DOMAIN items' \subseteq DOMAIN items
           /\ \A k \in Keys : hierarchy'[k] \subseteq hierarchy[k]
           /\ last'.a \in DOMAIN items
                 => /\ last'.a \notin DOMAIN items'
                    /\ hierarchy'[last'.a] = {} ]_vars

\* The two calls made were an insert and then a remove that emptied the
\* store and yet returned absent: the item was its own parent, and the
\* nested call on the same id had already taken it out of items.
C30_Witness ==
    /\ last.op = "remove"
    /\ last.result = "None"
    /\ nops = 2
    /\ inserts = 1
    /\ len(items) = 0

\* C31: add_item with an item whose id is already stored replaces the stored
\* item and re-buckets it: afterwards the id is a member of exactly one
\* bucket, the one keyed by the new item's parent_id, and len() is unchanged.
C31_ReinsertRebuckets ==
    [][ (last'.op = "insert" /\ last'.a \in DOMAIN items)
        => /\ items'[last'.a] = TodoItem(last'.a, last'.b)
           /\ BucketsOf(hierarchy', last'.a) = {last'.b}
           /\ len(items') = len(items) ]_vars

\* C32: in every state reachable through the store's operations,
\* replace_item_at_index with an arbitrary new item included, each key k of
\* items maps to an item whose own id is k.
C32_KeyIsItemId ==
    \A k \in DOMAIN items : items[k].id = k

\* C33: replace_item_at_index(id, new_item) preserves the hierarchy.  For a
\* known id it returns Some, the stored item afterwards is new_item with the
\* original item's parent_id, every other item, every bucket and len() are
\* unchanged and children(id) returns the same children; for an unknown id
\* it returns None and changes nothing.
C33_ReplaceFrame ==
    [][ last'.op = "replace"
        => LET id == last'.a
               new_item == last'.b
           IN  IF id \in DOMAIN items
               THEN /\ last'.result = "Some"
                    /\ items'[id] = [new_item EXCEPT
                                       !.parent_id = items[id].parent_id]
                    /\ todo_item' = Some(items'[id])
                    /\ \A k \in DOMAIN items \ {id} : items'[k] = items[k]
                    /\ DOMAIN items' = DOMAIN items
                    /\ hierarchy' = hierarchy
                    /\ len(items') = len(items)
                    /\ children_of(items', hierarchy', id)
                         = children_of(items, hierarchy, id)
               ELSE /\ last'.result = "None"
                    /\ todo_item' = Absent
                    /\ items' = items
                    /\ hierarchy' = hierarchy ]_vars

\* A replace of a stored item that has a child returned Some although the
\* new item carried another parent_id and another status than the one stored.
C33_Witness ==
    /\ last.op = "replace"
    /\ last.result = "Some"
    /\ last.a \in DOMAIN items
    /\ children_of(items, hierarchy, last.a) # {}
    /\ last.b.parent_id # items[last.a].parent_id
    /\ last.b.status = "Completed"
    /\ items[last.a].status = "Completed"

\* The thread that holds the mutex thread t is blocked on, or None.
AwaitedHolder(t) ==
    IF pc[t].step = "waiting" THEN mutex
    ELSE IF pc[t].step = "waiting_widget" THEN widget_mutex[t]
    ELSE None

\* C34: while the UI events are handled, no thread calls lock() on the store
\* while it holds the store guard, none calls lock() on an item widget
\* while it holds the store guard, and no set of threads is deadlocked,
\* each one blocked on a mutex held by a thread of the set.
C34_LockOrder ==
    /\ \A t \in Threads :
         pc[t].step \in {"waiting", "waiting_widget"} => mutex # t
    /\ \A B \in SUBSET Threads \ {{}} :
         \E t \in B : AwaitedHolder(t) \notin B

\* A thread is inside the status callback with the guards of its item
\* widget and of the store, and another thread is blocked in lock() on the
\* store.
C34_Witness ==
    \E t, u \in Threads :
        /\ t # u
        /\ pc[t].op = "status_callback"
        /\ pc[t].step = "locked"
        /\ mutex = t
        /\ widget_mutex[t] = t
        /\ pc[u].step = "waiting"

====
